---- MODULE Spec2Model ----
(***************************************************************************)
(* Descriptive statistics (statistics_functions/functions.py) and one-way  *)
(* and two-way ANOVA (statistics_functions/statistical_tests/anova.py).    *)
(*                                                                         *)
(* Numbers are exact rationals n/d (d > 0, lowest terms), so a sum of      *)
(* squares is the value the formula denotes; binary rounding of the        *)
(* 64-bit floats is not modelled.  Each number carries the flag np: TRUE   *)
(* for a numpy float64 (np.mean, np.sum and everything computed from       *)
(* them), FALSE for a Python int/float.  The flag decides what a zero      *)
(* divisor does: Python raises ZeroDivisionError, numpy yields nan or inf. *)
(* anova.py uses the names np and flatten without importing or defining    *)
(* them; they are read as numpy and as list concatenation.                 *)
(***************************************************************************)
EXTENDS Integers, Sequences, FiniteSets, TLC

VARIABLES
    pc,       \* "ready" before the call, "done" after it
    kind,     \* which input the caller holds: "vector", "groups" or "data"
    fn,       \* name of the function that was called
    vector,   \* input of mean / var / std
    groups,   \* input of TSS (concatenated) / SSB / SSW / one_way_anova
    data,     \* two_way_anova: rows of the DataFrame
    columns,  \* two_way_anova: names of the value columns the DataFrame has
    target,   \* two_way_anova: the target argument
    result,   \* what the call returned or raised
    printed   \* what the call wrote with print()

vars == <<pc, kind, fn, vector, groups, data, columns, target, result, printed>>

\* ---------------------------------------------------------------- bounds
MaxObs == 4      \* observations in a vector, or in all groups together
MaxGroups == 3   \* groups passed to SSB / SSW / one_way_anova
MaxRows == 3     \* rows of the DataFrame
MaxVal == 2      \* largest observation of a vector or group
Values == 0..MaxVal
features == <<"a", "b">>   \* the factor columns of the DataFrame
Levels == [a |-> {1, 2, 3}, b |-> {1, 2}]   \* levels of the factor columns
Cells == {0, 1}       \* entries of a value column

\* ------------------------------------------------------------- numbers
Abs(x) == IF x < 0 THEN -x ELSE x

RECURSIVE GCD(_, _)
GCD(a, b) == IF b = 0 THEN a ELSE GCD(b, a % b)

\* a finite number n/d in lowest terms
Fin(n, d, np) ==
    LET g == GCD(Abs(n), Abs(d))
        s == IF d < 0 THEN -1 ELSE 1
    IN  [k |-> "fin", n |-> s * (n \div g), d |-> s * (d \div g), np |-> np]

NaN == [k |-> "nan", n |-> 0, d |-> 1, np |-> TRUE]
\* s = 1: +inf, s = -1: -inf
Inf(s) == [k |-> "inf", n |-> s, d |-> 1, np |-> TRUE]
\* a raised exception, which every operation on it passes on
Raise(e) == [k |-> e, n |-> 0, d |-> 1, np |-> FALSE]
Exceptions == {"ZeroDivisionError", "KeyError"}
None == [k |-> "None"]

PyInt(x) == Fin(x, 1, FALSE)
IsRaise(a) == a.k \in Exceptions
Sign(a) == IF a.n > 0 THEN 1 ELSE IF a.n < 0 THEN -1 ELSE 0

\* a + b
Add(a, b) ==
    IF IsRaise(a) THEN a
    ELSE IF IsRaise(b) THEN b
    ELSE IF a.k = "nan" \/ b.k = "nan" THEN NaN
    ELSE IF a.k = "inf" /\ b.k = "inf" THEN (IF a.n = b.n THEN a ELSE NaN)
    ELSE IF a.k = "inf" THEN a
    ELSE IF b.k = "inf" THEN b
    ELSE Fin(a.n * b.d + b.n * a.d, a.d * b.d, a.np \/ b.np)

Neg(a) == IF a.k \in {"fin", "inf"} THEN [a EXCEPT !.n = -a.n] ELSE a

\* a - b
Sub(a, b) == Add(a, Neg(b))

\* a * b
Mul(a, b) ==
    IF IsRaise(a) THEN a
    ELSE IF IsRaise(b) THEN b
    ELSE IF a.k = "nan" \/ b.k = "nan" THEN NaN
    ELSE IF a.k = "inf" \/ b.k = "inf"
         THEN (IF Sign(a) * Sign(b) = 0 THEN NaN ELSE Inf(Sign(a) * Sign(b)))
    ELSE Fin(a.n * b.n, a.d * b.d, a.np \/ b.np)

\* a / b: a zero divisor raises for two Python numbers and gives nan or
\* inf as soon as one operand is a numpy float64
Div(a, b) ==
    IF IsRaise(a) THEN a
    ELSE IF IsRaise(b) THEN b
    ELSE IF a.k = "nan" \/ b.k = "nan" THEN NaN
    ELSE IF a.k = "inf" /\ b.k = "inf" THEN NaN
    ELSE IF a.k = "inf" THEN (IF Sign(b) < 0 THEN Inf(-a.n) ELSE a)
    ELSE IF b.k = "inf" THEN Fin(0, 1, TRUE)
    ELSE IF b.n = 0
         THEN (IF ~(a.np \/ b.np) THEN Raise("ZeroDivisionError")
               ELSE IF a.n = 0 THEN NaN ELSE Inf(Sign(a)))
    ELSE Fin(a.n * b.d, a.d * b.n, a.np \/ b.np)

\* the sum of a list of ints, as an int
RECURSIVE Total(_)
Total(s) == IF s = <<>> THEN 0 ELSE Head(s) + Total(Tail(s))

\* a ** 2
Sq(a) == Mul(a, a)

\* a list of Python ints as a list of numbers
PyList(v) == [i \in DOMAIN v |-> PyInt(v[i])]

\* Python's sum(): starts from the int 0 and adds from the left
RECURSIVE sum(_)
sum(s) == IF s = <<>> THEN PyInt(0)
          ELSE Add(sum(SubSeq(s, 1, Len(s) - 1)), s[Len(s)])

\* np.sum of a list: a float64, 0.0 for the empty list
np_sum(s) == LET t == sum(s) IN IF IsRaise(t) THEN t ELSE [t EXCEPT !.np = TRUE]

\* np.mean of a list: a float64, nan (with a warning) for the empty list
np_mean(s) == Div(np_sum(s), PyInt(Len(s)))

\* ------------------------------------------------ functions.py
mean(v) == Div(sum(v), PyInt(Len(v)))

\* var with the divisor N - 1
var_ddof1(v) ==
    LET mean_value == mean(v)
    IN  IF IsRaise(mean_value) THEN mean_value
        ELSE Div(sum([i \in DOMAIN v |-> Sq(Sub(v[i], mean_value))]),
                 PyInt(Len(v) - 1))

var(v) ==
    LET mean_value == mean(v)
    IN  IF IsRaise(mean_value) THEN mean_value
        ELSE mean([i \in DOMAIN v |-> Sq(Sub(v[i], mean_value))])

\* var(vector) ** 0.5, kept as the power it is
std(v) ==
    LET x == var(v)
    IN  IF IsRaise(x) THEN x ELSE [k |-> "pow", base |-> x, exp |-> <<1, 2>>]

\* ------------------------------------------------ anova.py, one way
RECURSIVE flatten(_)
flatten(gs) == IF gs = <<>> THEN <<>> ELSE Head(gs) \o flatten(Tail(gs))

TSS(v) ==
    LET Y == np_mean(v)
    IN  np_sum([i \in DOMAIN v |-> Sq(Sub(v[i], Y))])

\* SSB without the group sizes as weights
SSB_unweighted(gs) ==
    LET X == mean(flatten(gs))
        df == Len(gs) - 1
        ssb == sum([i \in DOMAIN gs |-> Sq(Sub(mean(gs[i]), X))])
    IN  IF IsRaise(X) THEN X
        ELSE IF IsRaise(ssb) THEN ssb
        ELSE [k |-> "tuple", ss |-> ssb, df |-> df]

SSB(gs) ==
    LET X == mean(flatten(gs))
        df == Len(gs) - 1
        ssb == sum([i \in DOMAIN gs |->
                     Mul(PyInt(Len(gs[i])), Sq(Sub(mean(gs[i]), X)))])
    IN  IF IsRaise(X) THEN X
        ELSE IF IsRaise(ssb) THEN ssb
        ELSE [k |-> "tuple", ss |-> ssb, df |-> df]

\* SSW with the group sizes, not the sizes minus 1, as degrees of freedom
SSW_df_len(gs) ==
    LET df == sum([i \in DOMAIN gs |-> PyInt(Len(gs[i]))]).n
        ssw == sum([i \in DOMAIN gs |-> TSS(gs[i])])
    IN  [k |-> "tuple", ss |-> ssw, df |-> df]

SSW(gs) ==
    LET df == sum([i \in DOMAIN gs |-> PyInt(Len(gs[i]) - 1)]).n
        ssw == sum([i \in DOMAIN gs |-> TSS(gs[i])])
    IN  [k |-> "tuple", ss |-> ssw, df |-> df]

\* f.sf(x, dfn, dfd) of scipy.stats, kept as the application it is
sf(x, dfn, dfd) == [x |-> x, dfn |-> dfn, dfd |-> dfd]

\* one_way_anova with the ratio upside down
one_way_anova_inverted(gs) ==
    LET b == SSB(gs)
        w == SSW(gs)
        ssb_div == Div(b.ss, PyInt(b.df))
        ssw_div == Div(w.ss, PyInt(w.df))
        f_val == Div(ssw_div, ssb_div)
        p_val == sf(f_val, b.df, w.df)
    IN  IF IsRaise(b) THEN b
        ELSE IF IsRaise(ssb_div) THEN ssb_div
        ELSE IF IsRaise(ssw_div) THEN ssw_div
        ELSE IF IsRaise(f_val) THEN f_val
        ELSE [k |-> "OneWayAnovaStatistics", statistic |-> f_val, pvalue |-> p_val]

one_way_anova(gs) ==
    LET b == SSB(gs)
        w == SSW(gs)
        ssb_div == Div(b.ss, PyInt(b.df))
        ssw_div == Div(w.ss, PyInt(w.df))
        f_val == Div(ssb_div, ssw_div)
        p_val == sf(f_val, b.df, w.df)
    IN  IF IsRaise(b) THEN b
        ELSE IF IsRaise(ssb_div) THEN ssb_div
        ELSE IF IsRaise(ssw_div) THEN ssw_div
        ELSE IF IsRaise(f_val) THEN f_val
        ELSE [k |-> "OneWayAnovaStatistics", statistic |-> f_val, pvalue |-> p_val]

\* ------------------------------------------------ anova.py, two way
Range(f) == {f[i] : i \in DOMAIN f}

\* df[name].values: the column as a list, KeyError when df has no such column
Column(rows, cols, name) ==
    IF name \in cols \cup Range(features)
    THEN [k |-> "list", values |-> [i \in DOMAIN rows |-> PyInt(rows[i][name])]]
    ELSE Raise("KeyError")

\* the key of a row under groupby(by)
KeyOf(r, by) == [j \in DOMAIN by |-> r[by[j]]]

LexLess(x, y) ==
    \E j \in DOMAIN x : x[j] < y[j] /\ \A i \in 1..(j - 1) : x[i] = y[i]

RECURSIVE SortKeys(_)
SortKeys(S) ==
    IF S = {} THEN <<>>
    ELSE LET m == CHOOSE x \in S : \A y \in S \ {x} : LexLess(x, y)
         IN  <<m>> \o SortKeys(S \ {m})

RECURSIVE RowsWithKey(_, _, _)
RowsWithKey(rows, by, key) ==
    IF rows = <<>> THEN <<>>
    ELSE (IF KeyOf(Head(rows), by) = key THEN <<Head(rows)>> ELSE <<>>)
         \o RowsWithKey(Tail(rows), by, key)

\* df.groupby(by): the groups in ascending order of their keys, each the
\* rows that have the key, in their order in df
groupby(rows, by) ==
    LET ks == SortKeys({KeyOf(rows[i], by) : i \in DOMAIN rows})
    IN  [g \in DOMAIN ks |-> RowsWithKey(rows, by, ks[g])]

\* group[target] of a group of rows
TargetOf(rows, tgt) == [i \in DOMAIN rows |-> PyInt(rows[i][tgt])]

\* df[feature].nunique()
nunique(rows, feature) == Cardinality({rows[i][feature] : i \in DOMAIN rows})

\* SSB_pd, lines 293-294: the sum of squares of one feature from the
\* groups of its levels and the means of their targets
SSB_pd_sum_of_squares(feature_group, feature_means, grand_mean) ==
    \* feature_df is the last group of the inner loop
    LET n == Len(feature_group[Len(feature_group)])
    IN  np_sum([g \in DOMAIN feature_means |->
                 Mul(PyInt(n), Sq(Sub(feature_means[g], grand_mean)))])

\* SSB_pd, lines 283-290: the levels of one feature and their means
SSB_pd_feature(feature_group, tgt, grand_mean) ==
    SSB_pd_sum_of_squares(
        feature_group,
        [g \in DOMAIN feature_group |-> np_mean(TargetOf(feature_group[g], tgt))],
        grand_mean)

\* SSB_pd, lines 295-301: what the loop has appended
SSB_pd_return(rows, feats, sum_sq) ==
    [k |-> "tuple",
     statistic |-> [feature |-> feats,
                    sum_sq |-> sum_sq,
                    df |-> [i \in DOMAIN feats |-> Len(feats) - 1]],
     ssb_features |-> sum_sq,
     df_ssb |-> [i \in DOMAIN feats |-> nunique(rows, feats[i]) - 1]]

SSB_pd_loop(rows, feats, tgt, grand_mean) ==
    SSB_pd_return(rows, feats,
        [i \in DOMAIN feats |->
          SSB_pd_feature(groupby(rows, <<feats[i]>>), tgt, grand_mean)])

SSB_pd_from(expr, rows, feats, tgt) ==
    IF IsRaise(expr) THEN expr
    ELSE SSB_pd_loop(rows, feats, tgt, np_mean(expr.values))

SSB_pd(rows, cols, feats, tgt) ==
    SSB_pd_from(Column(rows, cols, "expr"), rows, feats, tgt)

\* SSW_pd, lines 270-275
SSW_pd_return(statistic, ss_resid, df_resid) ==
    [k |-> "tuple",
     statistic |-> [feature |-> Append(statistic.feature, "residual"),
                    sum_sq |-> Append(statistic.sum_sq, ss_resid),
                    df |-> Append(statistic.df, df_resid)],
     ss_resid |-> ss_resid,
     df_resid |-> df_resid]

\* SSW_pd, lines 265-267: the sum of squares of one cell
SSW_pd_ss(values, group_mean) ==
    np_sum([i \in DOMAIN values |-> Sq(Sub(values[i], group_mean))])

SSW_pd_cell(values) == SSW_pd_ss(values, np_mean(values))

SSW_pd_loop(statistic, groupped, tgt) ==
    SSW_pd_return(
        statistic,
        sum([g \in DOMAIN groupped |-> SSW_pd_cell(TargetOf(groupped[g], tgt))]),
        Total([g \in DOMAIN groupped |-> Len(groupped[g]) - 1]))

SSW_pd(statistic, rows, feats, tgt) ==
    SSW_pd_loop(statistic, groupby(rows, feats), tgt)

\* ":".join(features)
RECURSIVE JoinColon(_)
JoinColon(names) ==
    IF Len(names) = 0 THEN ""
    ELSE IF Len(names) = 1 THEN names[1]
    ELSE names[1] \o ":" \o JoinColon(Tail(names))

\* np.cumprod(df_ssb)[-1]
RECURSIVE Product(_)
Product(s) == IF s = <<>> THEN 1 ELSE Head(s) * Product(Tail(s))

interaction_return(statistic, ss_interaction, df, feats) ==
    [k |-> "tuple",
     statistic |-> [feature |-> Append(statistic.feature, JoinColon(feats)),
                    sum_sq |-> Append(statistic.sum_sq, ss_interaction),
                    df |-> Append(statistic.df, df)],
     ss_interaction |-> ss_interaction,
     df |-> df]

interaction(statistic, total, ssb, df_ssb, ssw, feats) ==
    interaction_return(statistic, Sub(Sub(total, np_sum(ssb)), ssw),
                       Product(df_ssb), feats)

\* two_way_anova, lines 250-258: the p-values, the prints, and no return
two_way_anova_print(f_features, f_interaction, df_ssb, df_ssw, statistic) ==
    [ret |-> None,
     printed |-> <<f_features,
                   f_interaction,
                   [i \in DOMAIN f_features |-> sf(f_features[i], df_ssb, df_ssw)],
                   sf(f_interaction, df_ssb, df_ssw),
                   "[INFO] The difference between group mean and gen mean",
                   statistic>>]

\* two_way_anova, lines 244-245
two_way_anova_f(ms_ssb, ms_ssw, ms_interaction, df_ssb, df_ssw, statistic) ==
    two_way_anova_print([i \in DOMAIN ms_ssb |-> Div(ms_ssb[i], ms_ssw)],
                        Div(ms_interaction, ms_ssw),
                        df_ssb, df_ssw, statistic)

\* two_way_anova, lines 241-243
two_way_anova_ms(b, w, x) ==
    two_way_anova_f(
        [i \in DOMAIN b.ssb_features |-> Div(b.ssb_features[i], PyInt(b.df_ssb[i]))],
        Div(w.ss_resid, PyInt(w.df_resid)),
        Div(x.ss_interaction, PyInt(x.df)),
        b.df_ssb, w.df_resid, x.statistic)

\* two_way_anova, lines 235-238
two_way_anova_interaction(b, w, ss_total, feats) ==
    two_way_anova_ms(b, w,
        interaction(w.statistic, ss_total, b.ssb_features, b.df_ssb, w.ss_resid, feats))

\* two_way_anova, lines 229-235
two_way_anova_from(b, rows, cols, feats, tgt) ==
    IF IsRaise(b) THEN [ret |-> b, printed |-> <<>>]
    ELSE two_way_anova_interaction(b, SSW_pd(b.statistic, rows, feats, tgt),
                                   TSS(Column(rows, cols, "expr").values), feats)

\* what the call returns or raises, and what it has printed by then
two_way_anova(rows, cols, feats, tgt) ==
    two_way_anova_from(SSB_pd(rows, cols, feats, tgt), rows, cols, feats, tgt)

\* ------------------------------------------------ callers
Vectors == UNION {[1..n -> Values] : n \in 0..MaxObs}

\* the sizes of at most MaxGroups groups holding at most MaxObs observations
Shapes ==
    {s \in UNION {[1..k -> 0..MaxObs] : k \in 0..MaxGroups} : Total(s) <= MaxObs}

\* flat cut into consecutive groups of the sizes in shape
RECURSIVE Split(_, _)
Split(flat, shape) ==
    IF shape = <<>> THEN <<>>
    ELSE <<SubSeq(flat, 1, Head(shape))>>
         \o Split(SubSeq(flat, Head(shape) + 1, Len(flat)), Tail(shape))

NoData == /\ data = <<>>
          /\ columns = {}
          /\ target = ""

InitVector ==
    /\ kind = "vector"
    /\ vector \in Vectors
    /\ groups = <<>>
    /\ NoData

InitGroups ==
    /\ kind = "groups"
    /\ vector = <<>>
    /\ \E shape \in Shapes :
         \E flat \in [1..Total(shape) -> Values] : groups = Split(flat, shape)
    /\ NoData

Init ==
    /\ pc = "ready"
    /\ fn = ""
    /\ result = None
    /\ printed = <<>>
    /\ (InitVector \/ InitGroups)

Returns(name, value) ==
    /\ pc = "ready"
    /\ pc' = "done"
    /\ fn' = name
    /\ result' = value
    /\ printed' = <<>>
    /\ UNCHANGED <<kind, vector, groups, data, columns, target>>

Call_mean == kind = "vector" /\ Returns("mean", mean(PyList(vector)))

Call_var == kind = "vector" /\ Returns("var", var(PyList(vector)))

Call_std == kind = "vector" /\ Returns("std", std(PyList(vector)))

\* TSS of a vector, or of the concatenation of the caller's groups
Call_TSS ==
    \/ kind = "vector" /\ Returns("TSS", TSS(PyList(vector)))
    \/ kind = "groups" /\ Returns("TSS", TSS(PyList(flatten(groups))))

PyGroups == [i \in DOMAIN groups |-> PyList(groups[i])]

Call_SSB == kind = "groups" /\ Returns("SSB", SSB(PyGroups))

Call_SSW == kind = "groups" /\ Returns("SSW", SSW(PyGroups))

Call_one_way_anova ==
    kind = "groups" /\ Returns("one_way_anova", one_way_anova(PyGroups))

Next ==
    \/ Call_mean
    \/ Call_var
    \/ Call_std
    \/ Call_TSS
    \/ Call_SSB
    \/ Call_SSW
    \/ Call_one_way_anova

Spec == Init /\ [][Next]_vars

\* ------------------------------------------------ callers, two way
\* the rows a DataFrame with the value columns cols can hold; a column the
\* DataFrame lacks is 0 in every row and is never read
Rows(cols) ==
    [a : Levels.a, b : Levels.b,
     expr : IF "expr" \in cols THEN Cells ELSE {0},
     y : IF "y" \in cols THEN Cells ELSE {0}]

InitTwoWay ==
    /\ pc = "ready"
    /\ fn = ""
    /\ result = None
    /\ printed = <<>>
    /\ kind = "data"
    /\ vector = <<>>
    /\ groups = <<>>
    /\ columns \in {{"expr"}, {"y"}, {"expr", "y"}}
    /\ target \in columns
    /\ \E n \in 1..MaxRows : data \in [1..n -> Rows(columns)]

Call_two_way_anova ==
    /\ pc = "ready"
    /\ kind = "data"
    /\ LET r == two_way_anova(data, columns, features, target)
       IN  /\ result' = r.ret
           /\ printed' = r.printed
    /\ pc' = "done"
    /\ fn' = "two_way_anova"
    /\ UNCHANGED <<kind, vector, groups, data, columns, target>>

NextTwoWay == Call_two_way_anova

SpecTwoWay == InitTwoWay /\ [][NextTwoWay]_vars


\* ================================================= properties, one way
Done(name) == pc = "done" /\ fn = name

\* two numbers denote the same value, whichever library holds them
SameValue(x, y) == x.k = y.k /\ x.n = y.n /\ x.d = y.d

SumSquares(v) == Total([i \in DOMAIN v |-> v[i] * v[i]])

\* at least min groups, none of them empty
NonEmptyGroups(min) ==
    /\ kind = "groups"
    /\ Len(groups) >= min
    /\ \A i \in DOMAIN groups : groups[i] # <<>>

NObs == Len(flatten(groups))

\* sum over the groups of (group total)^2 / (group size)
GroupTerm == sum([i \in DOMAIN groups |->
                   Fin(Total(groups[i]) * Total(groups[i]), Len(groups[i]), FALSE)])

\* textbook between-groups sum of squares: sum_i T_i^2/n_i - T^2/N
RefSSB ==
    Sub(GroupTerm,
        Fin(Total(flatten(groups)) * Total(flatten(groups)), NObs, FALSE))

\* textbook within-groups sum of squares: sum x^2 - sum_i T_i^2/n_i
RefSSW == Sub(PyInt(SumSquares(flatten(groups))), GroupTerm)

\* C10: for every non-empty vector v, var(v) is the population variance
\* (sum x^2 / N - (sum x / N)^2, divisor N, not N - 1); it is never
\* negative, and it is 0 for a one-element vector
C10_VarIsPopulationVariance ==
    (Done("var") /\ vector # <<>>) =>
        /\ SameValue(result,
                     Fin(Len(vector) * SumSquares(vector) - Total(vector) * Total(vector),
                         Len(vector) * Len(vector), FALSE))
        /\ result.k = "fin" /\ result.n >= 0
        /\ (Len(vector) = 1 => result.n = 0)

\* var of <<0, 1, 1>>-like vectors: variance 2/9
C10_Witness ==
    /\ Done("var")
    /\ Len(vector) = 3
    /\ result.k = "fin" /\ result.n = 2 /\ result.d = 9

\* C1: for every non-empty collection of non-empty groups, TSS of the
\* concatenation of the groups equals the sum of squares of SSB(groups)
\* plus the sum of squares of SSW(groups)
C1_VarianceDecomposition ==
    (Done("TSS") /\ NonEmptyGroups(1)) =>
        /\ result.k = "fin"
        /\ SSB(PyGroups).k = "tuple"
        /\ SameValue(result, Add(SSB(PyGroups).ss, SSW(PyGroups).ss))

\* three groups of different sizes with both components non-zero
C1_Witness ==
    /\ Done("TSS") /\ NonEmptyGroups(3)
    /\ Len(groups[1]) # Len(groups[2])
    /\ SSB(PyGroups).ss.n > 0
    /\ SSW(PyGroups).ss.n > 0

\* every group has the same mean
EqualMeans ==
    \A i, j \in DOMAIN groups :
        Total(groups[i]) * Len(groups[j]) = Total(groups[j]) * Len(groups[i])

C9_FStatistic ==
    (Done("one_way_anova") /\ NonEmptyGroups(2) /\ RefSSW.n # 0) =>
        /\ result.k = "OneWayAnovaStatistics"
        /\ SameValue(result.statistic,
                     Div(Div(RefSSB, PyInt(Len(groups) - 1)),
                         Div(RefSSW, PyInt(NObs - Len(groups)))))
        /\ result.pvalue.x = result.statistic
        /\ result.pvalue.dfn = Len(groups) - 1
        /\ result.pvalue.dfd = NObs - Len(groups)
        /\ result.pvalue.dfn + result.pvalue.dfd = NObs - 1

\* three groups with a finite, non-zero F
C9_Witness ==
    /\ Done("one_way_anova") /\ NonEmptyGroups(3)
    /\ result.k = "OneWayAnovaStatistics"
    /\ result.statistic.k = "fin" /\ result.statistic.n > 0

\* C7: when a degrees-of-freedom divisor of one_way_anova is zero (one
\* group, or every group of size 1) or the within-groups mean square is
\* zero, the call raises; it never returns a nan or infinite statistic
C7_ZeroDivisorRaises ==
    (/\ Done("one_way_anova") /\ NonEmptyGroups(1)
     /\ (Len(groups) = 1 \/ NObs = Len(groups) \/ RefSSW.n = 0)) =>
        IsRaise(result)

\* C8: every operation given an empty vector, or groups one of which is
\* empty, ends in an InvalidInputError and returns no value
C8_EmptyInputRaises ==
    (/\ pc = "done"
     /\ \/ kind = "vector" /\ vector = <<>>
        \/ kind = "groups" /\ \E i \in DOMAIN groups : groups[i] = <<>>) =>
        result.k = "InvalidInputError"

\* ================================================= properties, two way
\* the statistic table the call printed
Table == printed[6]

\* the rows of the DataFrame whose column col holds level
RowsAt(col, level) == {i \in DOMAIN data : data[i][col] = level}

LevelsOf(col) == {data[i][col] : i \in DOMAIN data}

\* the sum of the target over a set of rows
RECURSIVE TargetTotal(_)
TargetTotal(I) ==
    IF I = {} THEN 0
    ELSE LET i == CHOOSE x \in I : TRUE
         IN  data[i][target] + TargetTotal(I \ {i})

\* sum over the levels in L of (level size) * (level mean - grand mean)^2,
\* the means taken over the target column
RECURSIVE RefFactorSS(_, _)
RefFactorSS(col, L) ==
    IF L = {} THEN PyInt(0)
    ELSE LET l == CHOOSE x \in L : TRUE
             I == RowsAt(col, l)
             dev == Sub(Fin(TargetTotal(I), Cardinality(I), TRUE),
                        Fin(TargetTotal(DOMAIN data), Len(data), TRUE))
         IN  Add(Mul(PyInt(Cardinality(I)), Sq(dev)), RefFactorSS(col, L \ {l}))

\* total sum of squares of the target column: sum x^2 - T^2 / N
RefTotalSS ==
    Fin(Len(data) * SumSquares([i \in DOMAIN data |-> data[i][target]])
          - TargetTotal(DOMAIN data) * TargetTotal(DOMAIN data),
        Len(data), TRUE)

\* every combination of a level of a and a level of b has the same number
\* of rows
Balanced ==
    \A la1, la2 \in LevelsOf("a") : \A lb1, lb2 \in LevelsOf("b") :
        Cardinality(RowsAt("a", la1) \cap RowsAt("b", lb1))
          = Cardinality(RowsAt("a", la2) \cap RowsAt("b", lb2))

\* C3: the sum of squares two_way_anova reports for each factor is the sum
\* over the factor's levels of (rows at the level) * (level mean - grand
\* mean)^2, for every dataset.  Stated for target = "expr", the column the
\* grand mean is read from.
C3_FactorSumOfSquares ==
    (Done("two_way_anova") /\ target = "expr") =>
        /\ printed # <<>>
        /\ \A i \in DOMAIN features :
             SameValue(Table.sum_sq[i], RefFactorSS(features[i], LevelsOf(features[i])))

\* C4: the degrees of freedom stored in the statistic table for each
\* factor is the number of distinct levels of the factor minus 1
C4_FactorDegreesOfFreedom ==
    (Done("two_way_anova") /\ printed # <<>>) =>
        \A i \in DOMAIN features :
            Table.df[i] = Cardinality(LevelsOf(features[i])) - 1

\* C5: for a balanced dataset and any target column, the four reported
\* sums of squares (factor a, factor b, interaction, residual) add up to
\* the total sum of squares of the target column
C5_Additivity ==
    (Done("two_way_anova") /\ Balanced) =>
        /\ printed # <<>>
        /\ SameValue(sum(Table.sum_sq), RefTotalSS)

\* C6: two_way_anova returns a result record to its caller: for every
\* valid input the returned value is present, not None
C6_ReturnsRecord ==
    (Done("two_way_anova") /\ "expr" \in columns) =>
        /\ ~IsRaise(result)
        /\ result # None

====
